---- MODULE Spec2Model ----
(***************************************************************************)
(* Logify (src/src/index.ts): a client-side logger with two sinks, the     *)
(* console and a fire-and-forget POST to a collection endpoint.            *)
(*                                                                         *)
(* JavaScript values are modelled as tokens (strings): "undefined", the    *)
(* numbers "n0" "n7" "n404" "n500", the strings "sdev" "sprod" "sx", object *)
(* references whose own enumerable fields are given by OwnFields.  A map   *)
(* (plain object) is a function from a set of keys to tokens.  An optional *)
(* map is the record [def, obj]; def = FALSE is JavaScript's undefined.    *)
(* Messages are sequences of one-character strings.                        *)
(***************************************************************************)
EXTENDS Integers, Sequences, FiniteSets, TLC

VARIABLES props,    \* the configuration handed to the constructor
          params,   \* the caller's params object as the last call left it
          last,     \* the last call of a public method: inputs and effects
          sanMsg,   \* sanitization runs: the message drawn
          sanHist   \* sanitization runs: results of successive applications

vars == <<props, params, last, sanMsg, sanHist>>

-----------------------------------------------------------------------------
(* Bounds *)

MaxLen == 4

-----------------------------------------------------------------------------
(* Characters *)

\* the punctuation class of the regular expression, index.ts:130
Punct == {"(", ")", "-", "&", "$", "#", "!", "[", "]", "{", "}", "\"", "'", ",", "."}

\* \s of the regular expression (one representative)
Space == {" "}

\* the characters messages are drawn from
Alphabet == {"a", "B", " ", ".", "-"}

RECURSIVE SeqsUpTo(_)
SeqsUpTo(n) ==
    IF n = 0 THEN {<<>>}
    ELSE LET shorter == SeqsUpTo(n - 1)
         IN shorter \cup {Append(s, c) : s \in {t \in shorter : Len(t) = n - 1}, c \in Alphabet}

Messages == SeqsUpTo(MaxLen)

-----------------------------------------------------------------------------
(* message.replace(/(?:[P]+(?:\s|$)|(?:^|\s)[P]+)/g, ' ').trim().toLowerCase() *)

\* length of the longest run of punctuation starting at position i
RECURSIVE PunctRun(_, _)
PunctRun(s, i) ==
    IF i <= Len(s) /\ s[i] \in Punct THEN 1 + PunctRun(s, i + 1) ELSE 0

\* length of the match of the regular expression starting at position i, 0
\* when there is none.  The alternatives are tried in order; [P]+ is greedy
\* and a shorter run is never followed by \s or $.
MatchLen(s, i) ==
    LET n == PunctRun(s, i)
        alt1 == IF n > 0 /\ i + n = Len(s) + 1 THEN n
                ELSE IF n > 0 /\ s[i + n] \in Space THEN n + 1
                ELSE 0
        altStart == IF i = 1 THEN n ELSE 0
        altSpace == IF i <= Len(s) /\ s[i] \in Space /\ PunctRun(s, i + 1) > 0
                    THEN 1 + PunctRun(s, i + 1) ELSE 0
    IN  IF alt1 > 0 THEN alt1 ELSE IF altStart > 0 THEN altStart ELSE altSpace

\* String.prototype.replace with the g flag: scan left to right, a match is
\* replaced by one space and the scan resumes after it
RECURSIVE ReplaceFrom(_, _)
ReplaceFrom(s, i) ==
    IF i > Len(s) THEN <<>>
    ELSE LET m == MatchLen(s, i)
         IN IF m > 0 THEN <<" ">> \o ReplaceFrom(s, i + m)
            ELSE <<s[i]>> \o ReplaceFrom(s, i + 1)

RECURSIVE TrimStart(_)
TrimStart(s) ==
    IF s # <<>> /\ Head(s) \in Space THEN TrimStart(Tail(s)) ELSE s

RECURSIVE TrimEnd(_)
TrimEnd(s) ==
    IF s # <<>> /\ s[Len(s)] \in Space THEN TrimEnd(SubSeq(s, 1, Len(s) - 1)) ELSE s

Trim(s) == TrimEnd(TrimStart(s))

LowerChar(c) == CASE c = "A" -> "a" [] c = "B" -> "b" [] OTHER -> c

ToLowerCase(s) == [i \in 1..Len(s) |-> LowerChar(s[i])]

SanitizedMessage(message) == ToLowerCase(Trim(ReplaceFrom(message, 1)))

\* the string a sequence of characters spells
RECURSIVE Text(_)
Text(s) == IF s = <<>> THEN "" ELSE Head(s) \o Text(Tail(s))

-----------------------------------------------------------------------------
(* Values *)

Undefined == "undefined"

\* the outcome of a caller-supplied function that throws
Throw == "THROW"

NumberVals == {"n0", "n7", "n404", "n500"}

StringVals == {"sdev", "sprod", "sx"}

\* Objects are the tokens "Err" (an Error: message and stack are not
\* enumerable), "ErrObj" (an error-like object {code: 404}), "M1"
\* ({code: 500, detail: "x"}) and "M2" ({error: "x", env: "x"}).

EmptyMap == [k \in {} |-> Undefined]

\* the own enumerable fields an object spread copies; a number has none
OwnFields(v) ==
    CASE v = "ErrObj" -> [code |-> "n404"]
      [] v = "M1" -> [code |-> "n500", detail |-> "sx"]
      [] v = "M2" -> [error |-> "sx", env |-> "sx"]
      [] OTHER -> EmptyMap

isString(v) == v \in StringVals

isNumber(v) == v \in NumberVals

\* the truthiness `||` and `if` test: undefined and 0 are falsy
Truthy(v) == v \notin {Undefined, "n0"}

\* {...a, ...b}
Spread(a, b) ==
    [k \in DOMAIN a \cup DOMAIN b |-> IF k \in DOMAIN b THEN b[k] ELSE a[k]]

\* delete obj[key]
Delete(obj, key) == [k \in DOMAIN obj \ {key} |-> obj[k]]

\* JSON.stringify of a flat object: fields whose value is undefined are left
\* out; the text is identified with the map it encodes
JSONStringify(obj) == [k \in {j \in DOMAIN obj : obj[j] # Undefined} |-> obj[k]]

\* Object.keys enumerates in insertion order, here a fixed order of the keys
KeyOrder == <<"error", "env", "code", "detail">>

NoParams == [def |-> FALSE, obj |-> EmptyMap]

Obj(m) == [def |-> TRUE, obj |-> m]

-----------------------------------------------------------------------------
(* Inputs *)

\* values of the reserved key `error`
ErrorVals == {"Err", "ErrObj", "n0"}

ParamMaps ==
    {EmptyMap, [env |-> "sdev", code |-> "n7"],
     [error |-> "Err"], [error |-> "n0"], [error |-> "ErrObj"],
     [error |-> "ErrObj", env |-> "sdev", code |-> "n7"]}

ParamsSet == {NoParams} \cup {Obj(m) : m \in ParamMaps}

DefaultParamsSet ==
    {[kind |-> "unset", obj |-> EmptyMap],
     [kind |-> "map", obj |-> [env |-> "sprod", error |-> "sx", detail |-> "sx"]],
     [kind |-> "fn", obj |-> [env |-> "sprod"]]}

ErrArgs == {Undefined} \cup ErrorVals

\* parseError functions: what they return for undefined, for an error
ParseErrorFn(onUndefined, onError) ==
    [v \in ErrArgs |-> IF v = Undefined THEN onUndefined ELSE onError]

ParseErrorUnset == [kind |-> "unset", fn |-> ParseErrorFn(Undefined, Undefined)]

ParseErrorSet ==
    {ParseErrorUnset}
        \cup {[kind |-> "fn", fn |-> ParseErrorFn(f[1], f[2])] :
                 f \in {<<Throw, Throw>>, <<Throw, "M1">>, <<Undefined, Undefined>>,
                        <<Undefined, "M1">>, <<Undefined, "M2">>, <<"M1", "M1">>}}

\* a gate is unset, a boolean, or a zero-argument predicate; printColors is
\* left unset
GateSet == {"unset", "true", "false", "fn"}

\* the configurations the constructor is given
PropsSet ==
    [defaultParams : DefaultParamsSet,
     parseError : ParseErrorSet,
     shouldSendLogsIf : GateSet,
     shouldLogToConsole : GateSet]

LogMessages == {<<"B", "a", "!">>}

\* 'error sending log', index.ts:202
ErrorSendingLog ==
    <<"e", "r", "r", "o", "r", " ", "s", "e", "n", "d", "i", "n", "g", " ", "l", "o", "g">>

\* what fetch throws when it cannot start: an Error without enumerable fields
FetchError == Obj(EmptyMap)

-----------------------------------------------------------------------------
(* The logger *)

getDefaultColorForLoggingLevel(type) ==
    CASE type = "debug" -> "#FFFFFF"
      [] type = "info" -> "#2AA2F6"
      [] type = "warn" -> "#FABA2F"
      [] type = "error" -> "#F35369"
      [] type = "fatal" -> "#F35369"
      [] OTHER -> "#FFFFFF"

toUpperCase(type) ==
    CASE type = "debug" -> "DEBUG"
      [] type = "info" -> "INFO"
      [] type = "warn" -> "WARN"
      [] type = "error" -> "ERROR"
      [] type = "fatal" -> "FATAL"

\* the value a key resolves to in the console rendering, index.ts:83-87
ResolvedValue(obj, key) ==
    IF key = "error" /\ props.parseError.kind = "fn"
    THEN props.parseError.fn[obj[key]]
    ELSE obj[key]

\* "key=value key=value": the entries kept, in order, and their separator
transformObjectToLogString(p) ==
    IF p.def
    THEN LET keys == SelectSeq(KeyOrder, LAMBDA k : k \in DOMAIN p.obj)
             thrown == \E i \in 1..Len(keys) : ResolvedValue(p.obj, keys[i]) = Throw
             kept == SelectSeq(keys, LAMBDA k : \/ isString(ResolvedValue(p.obj, k))
                                                \/ isNumber(ResolvedValue(p.obj, k)))
         IN  [thrown |-> thrown,
              sep |-> " ",
              items |-> IF thrown THEN <<>>
                        ELSE [i \in 1..Len(kept) |->
                                 <<kept[i], ResolvedValue(p.obj, kept[i])>>]]
    ELSE [thrown |-> FALSE, sep |-> " ", items |-> <<>>]

\* .split(' ').join('\n')
SplitJoin(str) == [sep |-> "\n", items |-> str.items]

\* the console.log arguments: title (level tag, message, params) and colour
constructStyledConsoleLogMessage(type, message, paramsStr) ==
    [typeText |-> toUpperCase(type),
     message |-> message,
     paramsString |-> paramsStr,
     loggingColor |-> getDefaultColorForLoggingLevel(type)]

\* as FormattedError, without the fallback to the raw error
FormattedErrorNoFallback(p) ==
    LET raw == IF p.def /\ "error" \in DOMAIN p.obj THEN p.obj["error"] ELSE Undefined
    IN  IF props.parseError.kind = "fn" THEN props.parseError.fn[raw] ELSE Undefined

\* parseError?.(params?.error) || params?.error, index.ts:121-123
FormattedError(p) ==
    LET raw == IF p.def /\ "error" \in DOMAIN p.obj THEN p.obj["error"] ELSE Undefined
        parsed == IF props.parseError.kind = "fn" THEN props.parseError.fn[raw]
                  ELSE Undefined
    IN  IF parsed = Throw THEN Throw
        ELSE IF Truthy(parsed) THEN parsed
        ELSE raw

\* index.ts:124-128
DefaultParams ==
    IF props.defaultParams.kind = "fn" THEN props.defaultParams.obj
    ELSE IF props.defaultParams.kind = "map" THEN props.defaultParams.obj
    ELSE EmptyMap

\* as ParamsToSend, without the `delete`
ParamsToSendKeepsError(p, formattedError) ==
    IF p.def /\ Truthy(formattedError)
    THEN [caller |-> p, toSend |-> Obj(Spread(p.obj, OwnFields(formattedError)))]
    ELSE [caller |-> p, toSend |-> p]

\* index.ts:134-140: the caller's object after `delete`, and paramsToSend
ParamsToSend(p, formattedError) ==
    IF p.def /\ Truthy(formattedError)
    THEN LET deleted == Delete(p.obj, "error")
         IN  [caller |-> Obj(deleted),
              toSend |-> Obj(Spread(deleted, OwnFields(formattedError)))]
    ELSE [caller |-> p, toSend |-> p]

\* as JsonLog, with the defaults spread after the params
JsonLogDefaultsLast(type, message, defaultParams, paramsToSend) ==
    JSONStringify(
        Spread(Spread([level |-> toUpperCase(type), msg |-> Text(SanitizedMessage(message))],
                      IF paramsToSend.def THEN paramsToSend.obj ELSE EmptyMap),
               defaultParams))

\* index.ts:143-148
JsonLog(type, message, defaultParams, paramsToSend) ==
    JSONStringify(
        Spread(Spread([level |-> toUpperCase(type), msg |-> Text(SanitizedMessage(message))],
                      defaultParams),
               IF paramsToSend.def THEN paramsToSend.obj ELSE EmptyMap))

constructBackendLogEvent(type, message, p) ==
    LET formattedError == FormattedError(p)
    IN  IF formattedError = Throw
        THEN [thrown |-> TRUE, jsonLog |-> EmptyMap, caller |-> p]
        ELSE LET pts == ParamsToSend(p, formattedError)
             IN  [thrown |-> FALSE,
                  jsonLog |-> JsonLog(type, message, DefaultParams, pts.toSend),
                  caller |-> pts.caller]

\* ret: what the predicate returns when the gate is one
shouldLogToConsole(ret) ==
    LET hasLogic == props.shouldLogToConsole \in {"true", "false", "fn"}
    IN  IF hasLogic
        THEN IF props.shouldLogToConsole \in {"true", "false"}
             THEN props.shouldLogToConsole = "true"
             ELSE ret
        ELSE TRUE

\* as debug, but posting the entry like the other levels do
debugSends(message, p) ==
    LET str == transformObjectToLogString(p)
    IN  IF str.thrown
        THEN [thrown |-> TRUE, console |-> <<>>, fetch |-> <<>>]
        ELSE [thrown |-> FALSE,
              console |-> <<[args |-> constructStyledConsoleLogMessage(
                                          "debug", message, SplitJoin(str)),
                             extra |-> <<p>>]>>,
              fetch |-> <<JsonLog("debug", message, DefaultParams, NoParams)>>]

\* effects of debug: console writes, fetch calls, exception to the caller
debug(message, p) ==
    LET str == transformObjectToLogString(p)
    IN  IF str.thrown
        THEN [thrown |-> TRUE, console |-> <<>>, fetch |-> <<>>]
        ELSE [thrown |-> FALSE,
              console |-> <<[args |-> constructStyledConsoleLogMessage(
                                          "debug", message, SplitJoin(str)),
                             extra |-> <<p>>]>>,
              fetch |-> <<>>]

\* fetch(endpoint, {method: 'POST', body: log}) inside try/catch: the post is
\* initiated, and a fetch that throws is reported by debug
TryFetch(log, outcome) ==
    IF outcome = "throws"
    THEN LET report == debug(ErrorSendingLog, FetchError)
         IN  [console |-> report.console, fetch |-> <<log>> \o report.fetch]
    ELSE [console |-> <<>>, fetch |-> <<log>>]

\* as sendLogToGrafana, with the `else` of index.ts:205 lost: a configured
\* gate that is open posts, and the unconditional post follows
sendLogToGrafanaNoElse(log, ret, outcome) ==
    LET hasLogicToSend == props.shouldSendLogsIf \in {"true", "false", "fn"}
        shouldSend == IF props.shouldSendLogsIf \in {"true", "false"}
                      THEN props.shouldSendLogsIf = "true"
                      ELSE ret
        first == IF hasLogicToSend /\ shouldSend THEN TryFetch(log, outcome)
                 ELSE [console |-> <<>>, fetch |-> <<>>]
        second == TryFetch(log, outcome)
    IN  [console |-> first.console \o second.console, fetch |-> first.fetch \o second.fetch]

\* ret: what the send predicate returns; outcome: whether fetch starts or
\* throws.  The function is async and never awaits: its body runs within the
\* call, and nothing it throws reaches the caller.
sendLogToGrafana(log, ret, outcome) ==
    LET hasLogicToSend == props.shouldSendLogsIf \in {"true", "false", "fn"}
        shouldSend == IF props.shouldSendLogsIf \in {"true", "false"}
                      THEN props.shouldSendLogsIf = "true"
                      ELSE ret
    IN  IF hasLogicToSend
        THEN IF shouldSend THEN TryFetch(log, outcome)
             ELSE [console |-> <<>>, fetch |-> <<>>]
        ELSE TryFetch(log, outcome)

\* the body info, warn, error and fatal share.  consoleAsked and sendAsked
\* tell whether the call came to invoke the gate's predicate.
logAt(type, message, p, consoleRet, sendRet, outcome) ==
    LET str == transformObjectToLogString(p)
        logMessage == constructStyledConsoleLogMessage(type, message, SplitJoin(str))
        written == IF shouldLogToConsole(consoleRet)
                   THEN <<[args |-> logMessage, extra |-> <<>>]>> ELSE <<>>
        event == constructBackendLogEvent(type, message, p)
        sent == sendLogToGrafana(event.jsonLog, sendRet, outcome)
        consoleAsked == props.shouldLogToConsole = "fn"
        sendAsked == props.shouldSendLogsIf = "fn"
    IN  IF str.thrown
        THEN [thrown |-> TRUE, console |-> <<>>, fetch |-> <<>>, caller |-> p,
              consoleAsked |-> FALSE, sendAsked |-> FALSE]
        ELSE IF event.thrown
        THEN [thrown |-> TRUE, console |-> written, fetch |-> <<>>, caller |-> p,
              consoleAsked |-> consoleAsked, sendAsked |-> FALSE]
        ELSE [thrown |-> FALSE, console |-> written \o sent.console,
              fetch |-> sent.fetch, caller |-> event.caller,
              consoleAsked |-> consoleAsked, sendAsked |-> sendAsked]

-----------------------------------------------------------------------------
(* Behaviours of the logger *)

NoCall ==
    [method |-> "none", message |-> <<>>, arg |-> NoParams,
     consoleRet |-> "none", sendRet |-> "none", outcome |-> "none",
     thrown |-> FALSE, console |-> <<>>, fetch |-> <<>>]

Init ==
    /\ props \in PropsSet
    /\ params = NoParams
    /\ last = NoCall
    /\ sanMsg = <<>>
    /\ sanHist = <<>>

\* what a predicate gate may return; a gate that is not a predicate is not called
Rets(gate) == IF gate = "fn" THEN BOOLEAN ELSE {FALSE}

\* what the call saw a predicate return: "none" when it did not invoke it
Returned(asked, ret) == IF ~asked THEN "none" ELSE IF ret THEN "true" ELSE "false"

\* the caller builds a params map (or passes none) for its next calls
NewParams ==
    /\ params' \in ParamsSet
    /\ last' = NoCall
    /\ UNCHANGED <<props, sanMsg, sanHist>>

\* the public methods, called with the params object the caller holds
Debug ==
    \E message \in LogMessages :
        \E r \in {debug(message, params)} :
            /\ last' = [method |-> "debug", message |-> message, arg |-> params,
                        consoleRet |-> "none", sendRet |-> "none", outcome |-> "none",
                        thrown |-> r.thrown, console |-> r.console, fetch |-> r.fetch]
            /\ UNCHANGED <<props, params, sanMsg, sanHist>>

Log(type) ==
    \E message \in LogMessages,
       consoleRet \in Rets(props.shouldLogToConsole),
       sendRet \in Rets(props.shouldSendLogsIf),
       outcome \in {"ok", "throws"} :
        \E r \in {logAt(type, message, params, consoleRet, sendRet, outcome)} :
            /\ last' = [method |-> type, message |-> message, arg |-> params,
                        consoleRet |-> Returned(r.consoleAsked, consoleRet),
                        sendRet |-> Returned(r.sendAsked, sendRet),
                        outcome |-> IF r.fetch # <<>> THEN outcome ELSE "none",
                        thrown |-> r.thrown, console |-> r.console, fetch |-> r.fetch]
            /\ params' = r.caller
            /\ UNCHANGED <<props, sanMsg, sanHist>>

Info == Log("info")

Warn == Log("warn")

Error == Log("error")

Fatal == Log("fatal")

Next == NewParams \/ Debug \/ Info \/ Warn \/ Error \/ Fatal

Spec == Init /\ [][Next]_vars

-----------------------------------------------------------------------------
(* Properties of the logger.  They speak of the last call: its inputs      *)
(* (last.method, last.arg, what the predicates it invoked returned, how the *)
(* fetch it made went) and its effects (last.console, last.fetch, last.thrown, params). *)

Levels == {"info", "warn", "error", "fatal"}

IsLog == last.method \in Levels

\* the call's own console writes: those tagged with its level
OwnWrites == SelectSeq(last.console, LAMBDA w : w.args.typeText = toUpperCase(last.method))

\* the failure reports: debug entries 'error sending log'
Reports ==
    SelectSeq(last.console,
              LAMBDA w : w.args.typeText = "DEBUG" /\ w.args.message = ErrorSendingLog)

\* what a gate resolves to, as the documentation states it
Resolves(gate, ret) ==
    CASE gate = "unset" -> TRUE
      [] gate = "true" -> TRUE
      [] gate = "false" -> FALSE
      [] gate = "fn" -> ret = "true"

\* the raw `error` param of the call, Undefined when there is none
RawError ==
    IF last.arg.def /\ "error" \in DOMAIN last.arg.obj THEN last.arg.obj["error"]
    ELSE Undefined

HasErrorKey == last.arg.def /\ "error" \in DOMAIN last.arg.obj

\* what the configured parseError gives for the call's error
Parsed == IF props.parseError.kind = "fn" THEN props.parseError.fn[RawError] ELSE Undefined

ParseErrorThrows == props.parseError.kind = "fn" /\ HasErrorKey /\ Parsed = Throw

\* the payload of a call that posted one
Posted == Len(last.fetch) > 0

Payload == last.fetch[1]

Defaults == props.defaultParams.obj

ArgObj == IF last.arg.def THEN last.arg.obj ELSE EmptyMap

\* C1: for info, warn, error and fatal each sink fires exactly when its own
\* gate resolves true: a post is initiated iff shouldSendLogsIf is unset, true
\* or a predicate returning true, and the call's console write is emitted iff
\* shouldLogToConsole is unset, true or a predicate returning true
C1_SinksFollowGates ==
    IsLog =>
        /\ Posted <=> Resolves(props.shouldSendLogsIf, last.sendRet)
        /\ Len(OwnWrites) > 0 <=> Resolves(props.shouldLogToConsole, last.consoleRet)

\* C2: debug never initiates a post and always writes to the console, under
\* every configuration of the gates
C2_DebugLocalOnly ==
    last.method = "debug" => Len(last.fetch) = 0 /\ Len(last.console) = 1

\* C3: when parseError throws on the `error` param of a log call, nothing is
\* surfaced to the caller and the sinks still fire as their gates dictate
C3_ParseErrorCaught ==
    (last.method # "none" /\ ParseErrorThrows) =>
        /\ ~last.thrown
        /\ IF IsLog
           THEN /\ Posted <=> Resolves(props.shouldSendLogsIf, last.sendRet)
                /\ Len(OwnWrites) > 0 <=> Resolves(props.shouldLogToConsole, last.consoleRet)
           ELSE Len(last.console) = 1

\* C4 as stated: every call of a public method produces at most one console
\* write and at most one post, also when initiating the post fails
C4_AtMostOneEach ==
    last.method # "none" => Len(last.console) <= 1 /\ Len(last.fetch) <= 1

\* C4, amended: every call produces at most one post and at most one console
\* write of its own; the only other console write is the single debug entry
\* that reports a post whose initiation threw
C4_AtMostOneOwnWrite ==
    last.method # "none" =>
        /\ Len(last.fetch) <= 1
        /\ Len(OwnWrites) <= 1
        /\ Len(last.console) <= 2
        /\ Len(last.console) = Len(OwnWrites) + (IF IsLog THEN Len(Reports) ELSE 0)
        /\ (IsLog /\ Len(Reports) > 0) => Len(Reports) = 1 /\ Posted /\ last.outcome = "throws"

C4_Witness ==
    /\ IsLog
    /\ last.outcome = "throws"
    /\ Len(last.console) = 2
    /\ Len(OwnWrites) = 1
    /\ Len(last.fetch) = 1

\* C5: when initiating the post throws inside info, warn, error or fatal, the
\* caller sees no exception, the failure is reported by one debug entry on the
\* console, and the report initiates no further post
C5_SendFailureContained ==
    (IsLog /\ Posted /\ last.outcome = "throws") =>
        /\ ~last.thrown
        /\ Len(Reports) = 1
        /\ last.console[Len(last.console)] = Reports[1]
        /\ Len(last.fetch) = 1

C5_Witness ==
    /\ IsLog
    /\ Posted
    /\ last.outcome = "throws"
    /\ Len(Reports) = 1
    /\ props.shouldLogToConsole = "false"
    /\ props.shouldSendLogsIf = "fn"

\* the call posted, had an `error` param, and parseError returned a non-empty
\* map for it
NormalizedToMap == IsLog /\ Posted /\ HasErrorKey /\ Parsed \in {"M1", "M2"}

\* C6 as stated: the payload then has each field of the map as a top-level
\* field and no `error` field
C6_NormalizedReplacesError ==
    NormalizedToMap =>
        /\ \A k \in DOMAIN OwnFields(Parsed) :
              k \in DOMAIN Payload /\ Payload[k] = OwnFields(Parsed)[k]
        /\ "error" \notin DOMAIN Payload

\* C6, amended: the payload then has each field of the map as a top-level
\* field, and the raw `error` param is not in it: it has an `error` field only
\* when the map or, failing that, defaultParams has a key `error`, with that value
C6_NormalizedReplacesRawError ==
    NormalizedToMap =>
        /\ \A k \in DOMAIN OwnFields(Parsed) :
              k \in DOMAIN Payload /\ Payload[k] = OwnFields(Parsed)[k]
        /\ IF "error" \in DOMAIN OwnFields(Parsed)
           THEN Payload["error"] = OwnFields(Parsed)["error"]
           ELSE IF "error" \in DOMAIN Defaults
           THEN Payload["error"] = Defaults["error"]
           ELSE "error" \notin DOMAIN Payload

C6_Witness ==
    /\ NormalizedToMap
    /\ Parsed = "M1"
    /\ "code" \in DOMAIN ArgObj
    /\ Payload["code"] = "n500"
    /\ Payload["detail"] = "sx"
    /\ "error" \notin DOMAIN Payload

\* C7 as stated: in the payload the caller's value wins for every key of the
\* params, and every key only the defaults have keeps the default's value
C7_CallerOverridesDefault ==
    (IsLog /\ Posted) =>
        /\ \A k \in DOMAIN ArgObj : k \in DOMAIN Payload /\ Payload[k] = ArgObj[k]
        /\ \A k \in DOMAIN Defaults \ DOMAIN ArgObj :
              k \in DOMAIN Payload /\ Payload[k] = Defaults[k]

\* the error the payload is built with, and the fields it spreads
Resolved == IF Truthy(Parsed) THEN Parsed ELSE RawError

Merged == IF last.arg.def /\ Truthy(Resolved) THEN OwnFields(Resolved) ELSE EmptyMap

ErrorStepKeys == IF last.arg.def /\ Truthy(Resolved) THEN {"error"} \cup DOMAIN Merged ELSE {}

\* C7, amended: the payload is {level, msg, ...defaultParams, ...params} for
\* every key the error step leaves alone (every key but `error` and the fields
\* of the resolved error, when the resolved error is truthy): the caller's
\* value wins over the default, and a key only the defaults have keeps the
\* default's value; a field of the resolved error wins over both
C7_MergeOrder ==
    (IsLog /\ Posted) =>
        /\ \A k \in DOMAIN ArgObj \ ErrorStepKeys :
              k \in DOMAIN Payload /\ Payload[k] = ArgObj[k]
        /\ \A k \in DOMAIN Defaults \ (DOMAIN ArgObj \cup ErrorStepKeys) :
              k \in DOMAIN Payload /\ Payload[k] = Defaults[k]
        /\ \A k \in DOMAIN Merged : k \in DOMAIN Payload /\ Payload[k] = Merged[k]

C7_Witness ==
    /\ IsLog
    /\ Posted
    /\ Defaults = [env |-> "sprod"]
    /\ ArgObj = [env |-> "sdev", code |-> "n7"]
    /\ Payload["env"] = "sdev"
    /\ Payload["code"] = "n7"

\* the call posted, parseError is configured and returned a falsy value for
\* an `error` param that is not null or undefined
ParsedFalsy ==
    /\ IsLog
    /\ Posted
    /\ props.parseError.kind = "fn"
    /\ HasErrorKey
    /\ Parsed = Undefined

\* C9 as stated: the raw `error` field then stays in the payload with the raw
\* value, and the raw error's own fields are not spread into it
C9_RawErrorRemains ==
    ParsedFalsy =>
        /\ "error" \in DOMAIN Payload
        /\ Payload["error"] = RawError
        /\ \A k \in DOMAIN OwnFields(RawError) \ (DOMAIN ArgObj \cup DOMAIN Defaults) :
              k \notin DOMAIN Payload

\* C9, amended: the raw error is then the fallback.  A truthy raw error is
\* removed from the payload and its own enumerable fields are spread into it
\* (an `error` field can then only be the default's); only a falsy raw error,
\* such as 0, stays in the payload as the `error` field, unmerged
C9_RawErrorIsFallback ==
    ParsedFalsy =>
        IF Truthy(RawError)
        THEN /\ \A k \in DOMAIN OwnFields(RawError) :
                   k \in DOMAIN Payload /\ Payload[k] = OwnFields(RawError)[k]
             /\ IF "error" \in DOMAIN Defaults
                THEN Payload["error"] = Defaults["error"]
                ELSE "error" \notin DOMAIN Payload
        ELSE /\ "error" \in DOMAIN Payload
             /\ Payload["error"] = RawError

C9_Witness ==
    /\ ParsedFalsy
    /\ RawError = "ErrObj"
    /\ "code" \notin DOMAIN ArgObj
    /\ Payload["code"] = "n404"
    /\ "error" \notin DOMAIN Payload

\* C10: a log call leaves the caller's params map as it was
C10_ParamsUnchanged == last.method # "none" => params = last.arg

-----------------------------------------------------------------------------
(* Sanitization runs *)

InitSan ==
    /\ sanMsg \in Messages
    /\ sanHist = <<>>
    /\ props = [defaultParams |-> [kind |-> "unset", obj |-> EmptyMap],
                parseError |-> ParseErrorUnset,
                shouldSendLogsIf |-> "unset",
                shouldLogToConsole |-> "unset"]
    /\ params = NoParams
    /\ last = NoCall

\* sanitize the message, then sanitize the result
ApplySanitize ==
    /\ Len(sanHist) < 2
    /\ sanHist' = Append(sanHist,
                         SanitizedMessage(IF sanHist = <<>> THEN sanMsg
                                          ELSE sanHist[Len(sanHist)]))
    /\ UNCHANGED <<props, params, last, sanMsg>>

NextSan == ApplySanitize

SpecSan == InitSan /\ [][NextSan]_vars

\* C8: sanitizing an already-sanitized message yields the same string
C8_SanitizeIdempotent == Len(sanHist) = 2 => sanHist[2] = sanHist[1]

====
